---- MODULE Spec2Model ----
(***************************************************************************)
(* Model of download_espa_order.py: the feed reader (SceneFeed.get_items), *)
(* the storage manager (LocalStorage.store, _download, copyfileobj) and    *)
(* the retry loop of the __main__ block.  Where the file carries both      *)
(* sides of a merge, the HEAD side (CHUNK, Process, timeout, retry loop)   *)
(* is the one modelled.  drawProgressBar only prints and is left out.      *)
(*                                                                         *)
(* Strings that the code splits are sequences of one-character strings;    *)
(* a URL is the sequence of its "/"-separated segments; a file's content   *)
(* is a sequence of bytes.                                                 *)
(***************************************************************************)
EXTENDS Integers, Sequences, FiniteSets, TLC

(* ---------------- bounds of the model ---------------- *)
MaxFeed == 2          \* longest feed of the supervisor specification
MaxFeedItems == 3     \* longest feed of the feed-reader specification
ArchiveLen == 3       \* length in bytes of the longest remote archive
MaxRestarts == 1      \* cancel-and-restart events in one behaviour
Timeout == 2          \* args.timeout * 60, in clock ticks

(* ---------------- program constants ---------------- *)
CHUNK == 16
HTTP_FORBIDDEN == 403
HTTP_NOT_FOUND == 404

ALL == <<"A", "L", "L">>
OrdA == <<"a">>
OrdB == <<"b">>
OrdAB == <<"a", "b">>
Orders == {OrdA, OrdB, OrdAB}

U0 == <<"h", "f0">>
U1 == <<"h", "f1">>
U2 == <<"h", "f2">>
Urls == {U0, U1, U2}
Filenames == {"f0", "f1", "f2"}

\* the archive the remote host serves at a URL: U0 is an empty archive
Remote(url) ==
    IF url = U0 THEN <<>>
    ELSE IF url = U2 THEN <<21>>
    ELSE [i \in 1..ArchiveLen |-> i]

(* ---------------- str.split ---------------- *)
\* the pieces of s between the occurrences of sep, in order
Pieces(s, sep) ==
    LET P == {i \in 1..Len(s) : s[i] = sep}
        n == Cardinality(P)
        Nth(k) == IF k = 0 THEN 0
                  ELSE IF k = n + 1 THEN Len(s) + 1
                  ELSE CHOOSE i \in P : Cardinality({j \in P : j <= i}) = k
    IN  [k \in 1..(n + 1) |-> SubSeq(s, Nth(k - 1) + 1, Nth(k) - 1)]

\* str.split(sep); the string is evaluated once and then cut
Split(str, sep) == CHOOSE r \in {Pieces(s, sep) : s \in {str}} : TRUE

\* 'scene_status:thestatus,orderid:theid,orderdate:thedate'
Describe(order) ==
    <<"s", ":", "c", ",", "o", ":">> \o order \o <<",", "d", ":", "x">>

\* the id of an entry, taken to hold the id of the entry's order, as the
\* test 'orderid in i['id']' of get_items expects
EntryId(url, order) == <<"/">> \o order \o <<"/", url[Len(url)]>>

Entry(url, order) ==
    [link |-> url, description |-> Describe(order), id |-> EntryId(url, order)]

\* sub in s, on strings
Contains(sub, s) ==
    \E i \in 0..(Len(s) - Len(sub)) : SubSeq(s, i + 1, i + Len(sub)) = sub

\* num_downloads = len(feed.entries), or for one order
\* len([i for i in feed.entries if orderid in i['id']])
num_downloads(es, oid) ==
    IF oid = ALL THEN Len(es)
    ELSE Cardinality({i \in 1..Len(es) : Contains(oid, es[i].id)})

\* entry.description.split(',')[1].split(':')[1]
SceneOrderMut(entry) == Split(Split(entry.description, ",")[1], ":")[2]
SceneOrder(entry) == Split(Split(entry.description, ",")[2], ":")[2]

\* orderid == "ALL" or scene_order == orderid
Matches(entry, oid) == oid = ALL \/ SceneOrder(entry) = oid

\* index of the next entry after i that get_items yields, 0 when exhausted
NextMatch(es, oid, i) ==
    IF \E j \in (i + 1)..Len(es) : Matches(es[j], oid)
    THEN CHOOSE j \in (i + 1)..Len(es) :
             /\ Matches(es[j], oid)
             /\ \A k \in (i + 1)..(j - 1) : ~Matches(es[k], oid)
    ELSE 0

\* Scene.__init__
Scene(srcurl, order, filenum, numfiles) ==
    [srcurl |-> srcurl, orderid |-> order,
     filename |-> srcurl[Len(srcurl)], filenum |-> filenum,
     numfiles |-> numfiles]

NoScene ==
    [srcurl |-> <<>>, orderid |-> <<>>, filename |-> "", filenum |-> 0,
     numfiles |-> 0]

\* if feed.status == 403: exit() / if feed.status == 404: exit()
FeedFailsMut(status) == status = HTTP_NOT_FOUND
FeedFails(status) == status = HTTP_FORBIDDEN \/ status = HTTP_NOT_FOUND

(* ---------------- the local disk ---------------- *)
Absent == [exists |-> FALSE, data |-> <<>>]
File(d) == [exists |-> TRUE, data |-> d]
Paths == {OrdA, OrdB} \X Filenames \X {"", ".part"}

\* basedir/orderid/
directory_path(s) == s.orderid
\* basedir/orderid/filename
scene_path(s) == <<s.orderid, s.filename, "">>
\* basedir/orderid/filename.part
tmp_scene_pathMut(s) == <<OrdA, s.filename, ".part">>
tmp_scene_path(s) == <<s.orderid, s.filename, ".part">>

VARIABLES
    feed_status,  \* feed.status of the parsed feed
    entries,      \* feed.entries
    orders,       \* the order id each entry's description was built from
    orderid,      \* args.order
    dirs,         \* the order directories that exist under basedir
    disk,         \* the files under basedir, by path
    pc,           \* position of the __main__ block
    index,        \* position of get_items in feed.entries
    scene,        \* the loop variable of the __main__ block
    numtries,
    exit_code,    \* exit status of the process, -1 while it runs
    spc,          \* position inside LocalStorage.store
    file_size,
    first_byte,
    source,       \* bytes the open response will still deliver
    out,          \* the scenes get_items has yielded in this run
    verdicts,     \* what the supervisor concluded for each of them
    attempts,     \* store calls made for the current scene
    timed_out,    \* 'A download timeout has occurred' was printed
    restarts,     \* times the user cancelled and restarted the client
    netcall,      \* this store call issued a HEAD or a range request
    netrun,       \* this run issued a HEAD or a range request
    mkdirs,       \* directories this run created
    k0,           \* size of the partial file when this store call began
    prefix0,      \* the partial file was then a prefix of the archive
    received,     \* bytes this store call read from range responses
    req_end,      \* offset after the last byte read from the latest range
    renamed,      \* this store call renamed the partial file
    disk0,        \* the directories and files when this store call began
    caught,       \* this store call caught an exception in its download loop
    unslept,      \* a range request was sent for this scene, no sleep since
    elapsed       \* ticks the current blocking call has lasted

feedVars == <<feed_status, entries, orders, orderid>>
diskVars == <<dirs, disk>>
mainVars == <<pc, index, scene, numtries, exit_code, out, verdicts, attempts,
              timed_out, restarts>>
storeVars == <<spc, file_size, first_byte, source>>
callVars == <<netcall, k0, prefix0, received, req_end, renamed, disk0,
              caught>>
vars == <<feedVars, diskVars, mainVars, storeVars, callVars,
          netrun, mkdirs, unslept, elapsed>>

IsPrefix(p, s) == Len(p) <= Len(s) /\ p = SubSeq(s, 1, Len(p))

\* os.path.exists(self.scene_path(scene))
is_storedMut(d, s) == d[tmp_scene_path(s)].exists
is_stored(d, s) == d[scene_path(s)].exists

\* first_byte = 0; if exists(tmp): first_byte = getsize(tmp)
ResumeOffsetMut(d, s) == 0
ResumeOffset(d, s) ==
    IF d[tmp_scene_path(s)].exists THEN Len(d[tmp_scene_path(s)].data) ELSE 0

\* while first_byte < file_size
MoreToFetch(fb, fs) == fb < fs

\* if first_byte >= file_size: os.rename(...)
RenameGuardMut(fb, fs) == TRUE
RenameGuard(fb, fs) == fb >= fs

\* while numtries < 6
TriesLeftMut(n) == n < 7
TriesLeft(n) == n < 6

EmptyDisk == [p \in Paths |-> Absent]

(* ---------------- LocalStorage.store ---------------- *)
PartSize(d, s) ==
    IF d[tmp_scene_path(s)].exists THEN Len(d[tmp_scene_path(s)].data) ELSE 0

\* the call storage.store(s): the frame of a new call
EnterStore(s) ==
    /\ spc' = "begin"
    /\ file_size' = 0
    /\ first_byte' = 0
    /\ source' = <<>>
    /\ netcall' = FALSE
    /\ k0' = PartSize(disk, s)
    /\ prefix0' = IsPrefix(disk[tmp_scene_path(s)].data, Remote(s.srcurl))
    /\ received' = <<>>
    /\ req_end' = PartSize(disk, s)
    /\ renamed' = FALSE
    /\ disk0' = <<dirs, disk>>
    /\ caught' = FALSE
    /\ elapsed' = 0

\* store returns to its caller, the argument of Process(target = ...)
Return ==
    /\ spc' = "idle"
    /\ pc' = "proc"
    /\ UNCHANGED exit_code

\* an exception leaves store and, uncaught, ends the interpreter
Raise ==
    /\ spc' = "idle"
    /\ pc' = "crashed"
    /\ exit_code' = 1

restMain == <<index, scene, numtries, out, verdicts, attempts, timed_out,
              restarts>>

StoreBegin ==
    /\ pc = "store" /\ spc = "begin"
    /\ IF is_stored(disk, scene)
       THEN Return
       ELSE spc' = "mkdir" /\ UNCHANGED <<pc, exit_code>>
    /\ UNCHANGED <<feedVars, diskVars, restMain, file_size, first_byte, source,
                   callVars, netrun, mkdirs, unslept, elapsed>>

MakeDirs ==
    /\ pc = "store" /\ spc = "mkdir"
    /\ \/ /\ directory_path(scene) \in dirs
          /\ spc' = "head"
          /\ UNCHANGED <<dirs, mkdirs, pc, exit_code>>
       \/ /\ directory_path(scene) \notin dirs
          /\ dirs' = dirs \cup {directory_path(scene)}
          /\ mkdirs' = mkdirs \cup {directory_path(scene)}
          /\ spc' = "head"
          /\ UNCHANGED <<pc, exit_code>>
       \/ /\ directory_path(scene) \notin dirs
          /\ Raise
          /\ UNCHANGED <<dirs, mkdirs>>
    /\ UNCHANGED <<feedVars, disk, restMain, file_size, first_byte, source,
                   callVars, netrun, unslept, elapsed>>

HeadProbe ==
    /\ pc = "store" /\ spc = "head"
    /\ netcall' = TRUE
    /\ netrun' = TRUE
    /\ \/ /\ file_size' = Len(Remote(scene.srcurl))
          /\ first_byte' = ResumeOffset(disk, scene)
          /\ spc' = "loop"
          /\ UNCHANGED <<pc, exit_code>>
       \/ /\ Raise
          /\ UNCHANGED <<file_size, first_byte>>
       \/ /\ spc' = "hung"
          /\ UNCHANGED <<pc, exit_code, file_size, first_byte>>
    /\ UNCHANGED <<feedVars, diskVars, restMain, source, k0, prefix0, received,
                   req_end, renamed, disk0, caught, mkdirs, unslept, elapsed>>

LoopTest ==
    /\ pc = "store" /\ spc = "loop"
    /\ spc' = IF MoreToFetch(first_byte, file_size) THEN "open" ELSE "rename"
    /\ UNCHANGED <<feedVars, diskVars, mainVars, file_size, first_byte, source,
                   callVars, netrun, mkdirs, unslept, elapsed>>

\* open(tmp, 'ab') leaves what is there and creates the file when missing
OpenAppend(d, s) ==
    IF d[tmp_scene_path(s)].exists THEN d
    ELSE [d EXCEPT ![tmp_scene_path(s)] = File(<<>>)]

\* _download up to urlopen: the host answers the request 'bytes=first_byte-'
\* with some prefix of the bytes from first_byte on, raises, or hangs
Min(a, b) == IF a < b THEN a ELSE b

OpenRange ==
    /\ pc = "store" /\ spc = "open"
    /\ disk' = OpenAppend(disk, scene)
    /\ netcall' = TRUE
    /\ netrun' = TRUE
    /\ unslept' = TRUE
    /\ \/ /\ \E n \in 0..(Len(Remote(scene.srcurl)) - first_byte) :
                source' = SubSeq(Remote(scene.srcurl), first_byte + 1,
                                 first_byte + n)
          /\ req_end' = first_byte
          /\ spc' = "copy"
          /\ UNCHANGED caught
       \/ /\ spc' = "rename"
          /\ caught' = TRUE
          /\ UNCHANGED <<source, req_end>>
       \/ /\ spc' = "hung"
          /\ UNCHANGED <<source, req_end, caught>>
    /\ UNCHANGED <<feedVars, dirs, mainVars, file_size, first_byte, k0, prefix0,
                   received, renamed, disk0, mkdirs, elapsed>>

\* copyfileobj: one read of at most CHUNK bytes, written to the partial file
ReadChunk ==
    /\ pc = "store" /\ spc = "copy"
    /\ source # <<>>
    /\ \E n \in 1..Min(CHUNK, Len(source)) :
          /\ disk' = [disk EXCEPT ![tmp_scene_path(scene)].data =
                                      @ \o SubSeq(source, 1, n)]
          /\ received' = received \o SubSeq(source, 1, n)
          /\ req_end' = req_end + n
          /\ source' = SubSeq(source, n + 1, Len(source))
    /\ UNCHANGED <<feedVars, dirs, mainVars, spc, file_size, first_byte,
                   netcall, k0, prefix0, renamed, disk0, caught, netrun,
                   mkdirs, unslept, elapsed>>

\* the read returns nothing: _download returns the size of the partial file
EndOfBody ==
    /\ pc = "store" /\ spc = "copy"
    /\ source = <<>>
    /\ first_byte' = Len(disk[tmp_scene_path(scene)].data)
    /\ spc' = "sleep"
    /\ UNCHANGED <<feedVars, diskVars, mainVars, file_size, source, callVars,
                   netrun, mkdirs, unslept, elapsed>>

\* the read raises (the host closed the connection): except ... break
TransferErrorMut ==
    /\ pc = "store" /\ spc = "copy"
    /\ caught' = TRUE
    /\ Raise
    /\ UNCHANGED <<feedVars, diskVars, restMain, file_size, first_byte, source,
                   netcall, k0, prefix0, received, req_end, renamed, disk0,
                   netrun, mkdirs, unslept, elapsed>>
TransferError ==
    /\ pc = "store" /\ spc = "copy"
    /\ caught' = TRUE
    /\ spc' = "rename"
    /\ UNCHANGED <<feedVars, diskVars, mainVars, file_size, first_byte, source,
                   netcall, k0, prefix0, received, req_end, renamed, disk0,
                   netrun, mkdirs, unslept, elapsed>>

\* the read never returns
TransferHang ==
    /\ pc = "store" /\ spc = "copy"
    /\ source # <<>>
    /\ spc' = "hung"
    /\ UNCHANGED <<feedVars, diskVars, mainVars, file_size, first_byte, source,
                   callVars, netrun, mkdirs, unslept, elapsed>>

\* time.sleep(random.randint(10, 30))
Backoff ==
    /\ pc = "store" /\ spc = "sleep"
    /\ spc' = "loop"
    /\ unslept' = FALSE
    /\ UNCHANGED <<feedVars, diskVars, mainVars, file_size, first_byte, source,
                   callVars, netrun, mkdirs, elapsed>>

\* os.rename(tmp_scene_path, scene_path): the partial file's content appears
\* under the completed path and the partial path is gone
RenameMut(d, s) == [d EXCEPT ![scene_path(s)] = d[tmp_scene_path(s)]]
Rename(d, s) ==
    [d EXCEPT ![scene_path(s)] = d[tmp_scene_path(s)],
              ![tmp_scene_path(s)] = Absent]

RenameStep ==
    /\ pc = "store" /\ spc = "rename"
    /\ IF RenameGuard(first_byte, file_size)
       THEN IF disk[tmp_scene_path(scene)].exists
            THEN /\ disk' = Rename(disk, scene)
                 /\ renamed' = TRUE
                 /\ Return
            ELSE /\ Raise
                 /\ UNCHANGED <<disk, renamed>>
       ELSE /\ Return
            /\ UNCHANGED <<disk, renamed>>
    /\ UNCHANGED <<feedVars, dirs, restMain, file_size, first_byte, source,
                   netcall, k0, prefix0, received, req_end, disk0, caught,
                   netrun, mkdirs, unslept, elapsed>>

\* wall-clock time passing while a network call of store does not return
Tick ==
    /\ pc = "store" /\ spc = "hung"
    /\ elapsed <= Timeout
    /\ elapsed' = elapsed + 1
    /\ UNCHANGED <<feedVars, diskVars, mainVars, storeVars, callVars, netrun,
                   mkdirs, unslept>>

StoreStep ==
    \/ StoreBegin \/ MakeDirs \/ HeadProbe \/ LoopTest \/ OpenRange
    \/ ReadChunk \/ EndOfBody \/ TransferError \/ TransferHang \/ Backoff
    \/ RenameStep \/ Tick

(* ---------------- the __main__ block ---------------- *)
NoCall ==
    /\ spc = "idle" /\ file_size = 0 /\ first_byte = 0 /\ source = <<>>
    /\ netcall = FALSE /\ k0 = 0 /\ prefix0 = TRUE /\ received = <<>>
    /\ req_end = 0 /\ renamed = FALSE /\ disk0 = <<dirs, disk>>
    /\ caught = FALSE /\ elapsed = 0

FreshRun ==
    /\ pc = "feed" /\ index = 0 /\ scene = NoScene /\ numtries = 0
    /\ exit_code = -1 /\ out = <<>> /\ verdicts = <<>> /\ attempts = 0
    /\ timed_out = FALSE /\ netrun = FALSE /\ mkdirs = {} /\ unslept = FALSE

FeedOf(links, ords) == [i \in 1..Len(links) |-> Entry(links[i], ords[i])]

MainUrls == {U1, U2}
\* in the supervisor's feeds U1 is a scene of order a, U2 one of order b
MainOrder(url) == IF url = U1 THEN OrdA ELSE OrdB

Init ==
    /\ feed_status \in {200, HTTP_FORBIDDEN, HTTP_NOT_FOUND}
    /\ \E n \in 0..MaxFeed :
          \E links \in [1..n -> MainUrls] :
              /\ orders = [i \in 1..n |-> MainOrder(links[i])]
              /\ entries = FeedOf(links, orders)
    /\ orderid \in {ALL, OrdA}
    /\ dirs = {}
    /\ disk = EmptyDisk
    /\ restarts = 0
    /\ FreshRun
    /\ NoCall

\* feedparser.parse, then the two status checks of get_items
RetrieveFeed ==
    /\ pc = "feed"
    /\ IF FeedFails(feed_status)
       THEN pc' = "exited" /\ exit_code' = 0
       ELSE pc' = "for" /\ UNCHANGED exit_code
    /\ UNCHANGED <<feedVars, diskVars, restMain, storeVars, callVars, netrun,
                   mkdirs, unslept, elapsed>>

\* the scene get_items yields next:
\* Scene(entry.link, scene_order, index+1, num_downloads)
Yielded(j) ==
    Scene(entries[j].link, SceneOrder(entries[j]), j,
          num_downloads(entries, orderid))

\* get_items yields the next scene; for scene in sf: if not is_stored(scene)
ForScene ==
    /\ pc = "for"
    /\ NextMatch(entries, orderid, index) # 0
    /\ index' = NextMatch(entries, orderid, index)
    /\ scene' = Yielded(NextMatch(entries, orderid, index))
    /\ out' = Append(out, Yielded(NextMatch(entries, orderid, index)))
    /\ IF is_stored(disk, Yielded(NextMatch(entries, orderid, index)))
       THEN /\ pc' = "for"
            /\ verdicts' = Append(verdicts, "skipped")
            /\ UNCHANGED numtries
       ELSE /\ pc' = "while"
            /\ numtries' = 1
            /\ UNCHANGED verdicts
    /\ attempts' = 0
    /\ unslept' = FALSE
    /\ UNCHANGED <<feedVars, diskVars, exit_code, timed_out, restarts,
                   storeVars, callVars, netrun, mkdirs, elapsed>>

\* get_items is exhausted: the script ends
FeedExhausted ==
    /\ pc = "for"
    /\ NextMatch(entries, orderid, index) = 0
    /\ pc' = "done"
    /\ exit_code' = 0
    /\ UNCHANGED <<feedVars, diskVars, restMain, storeVars, callVars, netrun,
                   mkdirs, unslept, elapsed>>

\* while numtries < 6: ... Process(target = storage.store(scene))
StartAttempt ==
    /\ pc = "while"
    /\ TriesLeft(numtries)
    /\ pc' = "store"
    /\ attempts' = attempts + 1
    /\ EnterStore(scene)
    /\ UNCHANGED <<feedVars, diskVars, index, scene, numtries, exit_code, out,
                   verdicts, timed_out, restarts, netrun, mkdirs, unslept>>

\* the loop is left: if numtries == 6 and not is_stored: 'Download failed.'
EndTries ==
    /\ pc = "while"
    /\ ~TriesLeft(numtries)
    /\ verdicts' = Append(verdicts,
                          IF numtries = 6 /\ ~is_stored(disk, scene)
                          THEN "failed" ELSE "ended")
    /\ pc' = "for"
    /\ UNCHANGED <<feedVars, diskVars, index, scene, numtries, exit_code, out,
                   attempts, timed_out, restarts, storeVars, callVars, netrun,
                   mkdirs, unslept, elapsed>>

\* p.start(); p.join(timeout): the child, whose target is None, has ended
ProcessJoin ==
    /\ pc = "proc"
    /\ pc' = "recheck"
    /\ UNCHANGED <<feedVars, diskVars, restMain, exit_code, storeVars, callVars,
                   netrun, mkdirs, unslept, elapsed>>

\* p.is_alive() after the join: the message, p.terminate(), p.join()
ProcessTimeout ==
    /\ pc = "proc"
    /\ pc' = "recheck"
    /\ timed_out' = TRUE
    /\ UNCHANGED <<feedVars, diskVars, index, scene, numtries, exit_code, out,
                   verdicts, attempts, restarts, storeVars, callVars, netrun,
                   mkdirs, unslept, elapsed>>

\* if is_stored(scene): numtries = 6 else: numtries += 1
AfterAttemptMut(stored, n) == n + 1
AfterAttempt(stored, n) == IF stored THEN 6 ELSE n + 1

RecheckMut ==
    /\ pc = "recheck"
    /\ numtries' = AfterAttempt(is_stored(disk, scene), numtries)
    /\ pc' = "for"
    /\ UNCHANGED <<feedVars, diskVars, index, scene, exit_code, out, verdicts,
                   attempts, timed_out, restarts, storeVars, callVars, netrun,
                   mkdirs, unslept, elapsed>>
Recheck ==
    /\ pc = "recheck"
    /\ numtries' = AfterAttempt(is_stored(disk, scene), numtries)
    /\ pc' = "while"
    /\ UNCHANGED <<feedVars, diskVars, index, scene, exit_code, out, verdicts,
                   attempts, timed_out, restarts, storeVars, callVars, netrun,
                   mkdirs, unslept, elapsed>>

\* the user cancels the client and starts it again on the same directory
Restart ==
    /\ pc # "feed"
    /\ restarts < MaxRestarts
    /\ restarts' = restarts + 1
    /\ pc' = "feed" /\ index' = 0 /\ scene' = NoScene /\ numtries' = 0
    /\ exit_code' = -1 /\ out' = <<>> /\ verdicts' = <<>> /\ attempts' = 0
    /\ timed_out' = FALSE /\ netrun' = FALSE /\ mkdirs' = {}
    /\ spc' = "idle" /\ file_size' = 0 /\ first_byte' = 0 /\ source' = <<>>
    /\ netcall' = FALSE /\ k0' = 0 /\ prefix0' = TRUE /\ received' = <<>>
    /\ req_end' = 0 /\ renamed' = FALSE /\ disk0' = <<dirs, disk>>
    /\ caught' = FALSE /\ unslept' = FALSE /\ elapsed' = 0
    /\ UNCHANGED <<feedVars, diskVars>>

MainStep ==
    \/ RetrieveFeed \/ ForScene \/ FeedExhausted \/ StartAttempt \/ EndTries
    \/ ProcessJoin \/ ProcessTimeout \/ Recheck

Next == MainStep \/ StoreStep \/ Restart

Spec == Init /\ [][Next]_vars

\* the supervisor on feeds of at most one entry; the interpreter takes the
\* next step of the script and of store as long as one is possible (the user
\* need not restart the client)
FairInit == Init /\ Len(entries) <= 1
FairSpec ==
    FairInit /\ [][Next]_vars /\ WF_vars(MainStep) /\ WF_vars(StoreStep)

(* ---------------- store called directly, on any disk ---------------- *)
PartStates(url) ==
    {Absent, File(Remote(url) \o <<99>>)}
        \cup {File(SubSeq(Remote(url), 1, k)) : k \in 0..Len(Remote(url))}

StoreInit ==
    /\ feed_status = 200
    /\ orders = <<OrdA>>
    /\ \E u \in Urls :
          /\ entries = FeedOf(<<u>>, orders)
          /\ scene = Scene(u, OrdA, 1, 1)
          /\ \E p \in PartStates(u), c \in {Absent, File(Remote(u))} :
                /\ disk = [EmptyDisk EXCEPT
                              ![tmp_scene_path(scene)] = p,
                              ![scene_path(scene)] = c]
                /\ dirs \in {{}, {OrdA}}
                /\ (p.exists \/ c.exists) => dirs = {OrdA}
          /\ k0 = PartSize(disk, scene)
          /\ prefix0 = IsPrefix(disk[tmp_scene_path(scene)].data, Remote(u))
    /\ orderid = ALL
    /\ pc = "store" /\ index = 1 /\ numtries = 1 /\ exit_code = -1
    /\ out = <<scene>> /\ verdicts = <<>> /\ attempts = 1
    /\ timed_out = FALSE /\ restarts = 0 /\ netrun = FALSE /\ mkdirs = {}
    /\ spc = "begin" /\ file_size = 0 /\ first_byte = 0 /\ source = <<>>
    /\ netcall = FALSE /\ received = <<>> /\ req_end = k0
    /\ renamed = FALSE /\ disk0 = <<dirs, disk>> /\ caught = FALSE
    /\ unslept = FALSE /\ elapsed = 0

\* store(scene) is called again, after it returned or raised
CallStore ==
    /\ pc \in {"proc", "crashed"}
    /\ pc' = "store"
    /\ exit_code' = -1
    /\ EnterStore(scene)
    /\ UNCHANGED <<feedVars, diskVars, restMain, netrun, mkdirs, unslept>>

\* the process running store is killed; a later one calls store again
KillStore ==
    /\ pc = "store" /\ spc # "begin"
    /\ pc' = "proc"
    /\ spc' = "idle"
    /\ UNCHANGED <<feedVars, diskVars, restMain, exit_code, file_size,
                   first_byte, source, callVars, netrun, mkdirs, unslept, elapsed>>

StoreNext == StoreStep \/ CallStore \/ KillStore

StoreSpec == StoreInit /\ [][StoreNext]_vars

(* ---------------- get_items alone, on any feed ---------------- *)
FeedInit ==
    /\ feed_status \in {200, HTTP_FORBIDDEN, HTTP_NOT_FOUND}
    /\ \E n \in 0..MaxFeedItems :
          /\ orders \in [1..n -> Orders]
          /\ \E links \in [1..n -> MainUrls] : entries = FeedOf(links, orders)
    /\ orderid \in {ALL} \cup Orders
    /\ dirs = {}
    /\ disk = EmptyDisk
    /\ restarts = 0
    /\ FreshRun
    /\ NoCall

\* list(get_items(orderid)): the next scene is taken from the generator
TakeScene ==
    /\ pc = "for"
    /\ NextMatch(entries, orderid, index) # 0
    /\ LET j == NextMatch(entries, orderid, index)
       IN  /\ index' = j
           /\ out' = Append(out, Yielded(j))
    /\ UNCHANGED <<feedVars, diskVars, pc, scene, numtries, exit_code,
                   verdicts, attempts, timed_out, restarts, storeVars,
                   callVars, netrun, mkdirs, unslept, elapsed>>

FeedNext == RetrieveFeed \/ TakeScene \/ FeedExhausted

FeedSpec == FeedInit /\ [][FeedNext]_vars

(* ---------------- the claims ---------------- *)
Total == Len(Remote(scene.srcurl))
Completed == disk[scene_path(scene)]
Partial == disk[tmp_scene_path(scene)]

\* C1: when a store call starts with a partial file of size k < total that is
\* the first k bytes of the archive, the range requests of the call start
\* where the bytes read so far end (none requested twice, none skipped), the
\* bytes read are the archive's bytes from k on, and when the call creates
\* the completed file it has read exactly [k, total) and the file equals the
\* archive.
ResumeFetchesExactlyTheRest ==
    (prefix0 /\ k0 < Total) =>
        /\ req_end = k0 + Len(received)
        /\ received = SubSeq(Remote(scene.srcurl), k0 + 1, k0 + Len(received))
        /\ renamed => /\ k0 + Len(received) = Total
                      /\ Completed.data = Remote(scene.srcurl)

ResumedAndCompleted ==
    /\ prefix0 /\ k0 > 0 /\ k0 < Total
    /\ renamed /\ pc = "proc"
    /\ Len(received) = Total - k0

\* C2: a completed file is never shorter than the archive's total size, and a
\* store call that renamed the partial file did so with a size of at least
\* the total the HEAD probe reported.
NoShortFilePromoted ==
    /\ Completed.exists => Len(Completed.data) >= Total
    /\ renamed => /\ file_size = Total
                  /\ Len(Completed.data) >= file_size

ShortPartialKept ==
    /\ pc = "proc" /\ ~renamed /\ netcall
    /\ Partial.exists /\ Len(Partial.data) > 0 /\ Len(Partial.data) < Total
    /\ ~Completed.exists

\* C3: a store call that starts when the completed file exists issues no
\* network request and leaves the directories and every file as they were.
StoreOfStoredSceneIsNoOp ==
    disk0[2][scene_path(scene)].exists =>
        /\ ~netcall
        /\ <<dirs, disk>> = disk0
        /\ spc \in {"begin", "idle"}

StoredSceneStoreReturned ==
    /\ disk0[2][scene_path(scene)].exists
    /\ pc = "proc" /\ spc = "idle"

\* C4: the supervisor makes at most 5 store attempts for a scene; after 5
\* attempts that leave the scene absent a failure is reported for it, and a
\* reported failure means 5 attempts were made and the scene is absent.
AtMostFiveAttempts ==
    /\ attempts <= 5
    /\ (pc = "for" /\ index > 0 /\ attempts = 5 /\ ~Completed.exists)
           => verdicts[Len(verdicts)] = "failed"
    /\ (pc = "for" /\ index > 0 /\ verdicts[Len(verdicts)] = "failed")
           => (attempts = 5 /\ ~Completed.exists)

FiveAttemptsFailed ==
    /\ pc = "for" /\ index > 0 /\ attempts = 5
    /\ ~Completed.exists
    /\ verdicts[Len(verdicts)] = "failed"

\* C5: no store attempt lasts longer than the configured timeout: a call that
\* blocks is aborted when the timeout expires.
AttemptAbortedAtTimeout ==
    pc = "store" => elapsed <= Timeout

\* C6: the run eventually ends, whatever the remote host does.
RunEventuallyEnds ==
    <>(pc \in {"done", "exited", "crashed"})

\* C7: a run that ended without a feed error has given a verdict to every
\* scene the feed yields.
EveryYieldedSceneProcessed ==
    (pc \in {"done", "crashed"}) =>
        /\ NextMatch(entries, orderid, index) = 0
        /\ Len(verdicts) = Len(out)

\* C8: when the feed answers 403 or 404, no scene is yielded, no store
\* attempt is made, no directory is created and no download request is sent.
FeedErrorStopsBeforeAnyScene ==
    (feed_status = HTTP_FORBIDDEN \/ feed_status = HTTP_NOT_FOUND) =>
        /\ pc \in {"feed", "exited"}
        /\ out = <<>> /\ attempts = 0 /\ spc = "idle"
        /\ ~netrun /\ mkdirs = {}
        /\ <<dirs, disk>> = disk0

FeedErrorExit ==
    /\ pc = "exited" /\ feed_status = HTTP_FORBIDDEN
    /\ Len(entries) > 0 /\ orderid = ALL

\* C9: a run that ends early on a feed error ends with a non-zero exit status.
EarlyExitIsNonZero ==
    pc = "exited" => exit_code # 0

\* C10: when get_items is exhausted it has yielded, in feed order, one scene
\* for each entry whose order id equals the filter (every entry for ALL).
RECURSIVE Wanted(_, _, _)
Wanted(ords, oid, i) ==
    IF i > Len(ords) THEN <<>>
    ELSE (IF oid = ALL \/ ords[i] = oid THEN <<i>> ELSE <<>>)
             \o Wanted(ords, oid, i + 1)

FeedFiltering ==
    pc = "done" =>
        LET w == Wanted(orders, orderid, 1)
        IN  /\ Len(out) = Len(w)
            /\ \A k \in 1..Len(w) :
                  /\ out[k].srcurl = entries[w[k]].link
                  /\ out[k].orderid = orders[w[k]]

FilteredTwoOfThree ==
    /\ pc = "done"
    /\ orders = <<OrdA, OrdA, OrdB>> /\ orderid = OrdA
    /\ Len(out) = 2

(* C11: after a store call has produced the completed file of a scene (it
   renamed the partial file), that scene's partial file does not exist, for
   as long as the result of that call stands. *)
NoPartialBesideCompleted ==
    renamed => (Completed.exists /\ ~Partial.exists)

\* a call that started from a partial file has just renamed it
RenamedFromPartial ==
    /\ renamed /\ pc = "proc"
    /\ k0 > 0
    /\ Completed.exists /\ ~Partial.exists

(* C12: the supervisor starts a store attempt only for a scene whose
   completed file is missing at that moment; once the re-check after an
   attempt finds the completed file, the retry loop has no tries left; and
   when the loop is left with the completed file on disk, the verdict just
   given for the scene is not a failure. *)
EarlyStopOfRetries ==
    /\ pc = "store" => ~disk0[2][scene_path(scene)].exists
    /\ (pc = "while" /\ is_stored(disk, scene)) => ~TriesLeft(numtries)
    /\ (pc = "for" /\ Len(out) > 0 /\ is_stored(disk, scene)) =>
           verdicts[Len(verdicts)] # "failed"

\* the second attempt stored the scene and the loop was left without a third
StoredBySecondAttempt ==
    /\ pc = "for" /\ attempts = 2
    /\ Len(verdicts) = Len(out)
    /\ verdicts[Len(verdicts)] = "ended"
    /\ is_stored(disk, scene)

(* C13: once a store call has caught an exception raised inside its download
   loop, the call is out of the loop for good (it sends no further range
   request), the exception does not reach the caller, the partial file is not
   renamed, and the partial file holds what it held when the call began
   followed by every byte this call read. *)
ExceptionEndsOneAttempt ==
    caught =>
        /\ pc \in {"store", "proc"}
        /\ pc = "store" => spc = "rename"
        /\ pc = "proc" => spc = "idle"
        /\ ~renamed
        /\ Partial.exists
        /\ Partial.data = disk0[2][tmp_scene_path(scene)].data \o received

\* the host closed the connection after some bytes; store has returned with
\* a partial file shorter than the archive
ReturnedAfterException ==
    /\ caught /\ pc = "proc"
    /\ received # <<>>
    /\ Len(Partial.data) < file_size

(* C14: whenever store is about to send a range request for a scene, either
   no range request has been sent for that scene in this run or a backoff
   sleep has taken place since the latest one. *)
BackoffBetweenRangeRequests ==
    (pc = "store" /\ spc = "open") => ~unslept

(* C15: scenes are taken in feed order; while the supervisor is in the retry
   loop of a scene (a store call included), that scene is the latest one the
   feed yielded and every scene yielded before it has its verdict; store is
   active only inside the supervisor's single call of it. *)
StrictlySequential ==
    /\ spc # "idle" => pc = "store"
    /\ pc \in {"while", "store", "proc", "recheck"} =>
          /\ Len(out) = Len(verdicts) + 1
          /\ scene = out[Len(out)]
    /\ \A i, j \in 1..Len(out) : i < j => out[i].filenum < out[j].filenum

\* the second scene of the feed is being transferred, the first has its verdict
SecondSceneInTransfer ==
    /\ pc = "store" /\ spc = "copy"
    /\ Len(out) = 2 /\ Len(verdicts) = 1
    /\ received # <<>>

(* C16: during a store call for a scene and until the supervisor has
   re-checked it, every file other than that scene's own partial and
   completed file is what it was when the call began. *)
StoreTouchesOwnFilesOnly ==
    pc \in {"store", "proc", "recheck"} =>
        \A p \in Paths :
            (p[1] # scene.orderid \/ p[2] # scene.filename) =>
                disk[p] = disk0[2][p]

\* the first scene of the feed is stored, a different second scene has
\* received bytes in its own partial file
OtherSceneStoredWhileTransferring ==
    /\ pc = "store" /\ Len(out) = 2
    /\ scene_path(out[1]) # scene_path(out[2])
    /\ disk[scene_path(out[1])].data = Remote(out[1].srcurl)
    /\ disk[scene_path(out[1])].exists
    /\ Partial.exists /\ Partial.data # <<>>

(* C17, as stated: every completed file a store call has created has exactly
   the size the HEAD request of that call reported. *)
CompletedSizeIsTotal ==
    renamed => Len(Completed.data) = file_size

(* C17, amended: a completed file created by a store call that began with no
   partial file, or with one not longer than the total, has exactly the size
   the HEAD request of that call reported. *)
CompletedSizeIsTotalUnlessOverlong ==
    (renamed /\ k0 <= file_size) => Len(Completed.data) = file_size

\* a call that began with a partial file within the total has created a
\* completed file of a non-empty archive
CreatedFromPartialWithinTotal ==
    /\ renamed /\ pc = "proc"
    /\ k0 > 0 /\ k0 <= file_size
    /\ Len(Completed.data) = file_size

(* C18: whenever store has passed the size test and is about to call
   os.rename on the partial file, the partial file exists. *)
RenameOnlyOfExistingPartial ==
    (pc = "store" /\ spc = "rename" /\ RenameGuard(first_byte, file_size)) =>
        Partial.exists

(* C19: every scene get_items has yielded carries a file number between 1 and
   its total count, and once get_items is exhausted that total count is the
   number of scenes it yielded. *)
FilenumWithinNumfiles ==
    \A k \in 1..Len(out) :
        /\ 1 <= out[k].filenum
        /\ out[k].filenum <= out[k].numfiles
        /\ pc = "done" => out[k].numfiles = Len(out)

====
